---------------------------- MODULE Spec2Model ----------------------------
(***************************************************************************)
(* Model of the rental-property tax script app.py.                         *)
(*                                                                         *)
(* The script is re-run from top to bottom after every widget change; a    *)
(* run reads the widgets, builds properties_data, computes the tax         *)
(* figures and derives the warnings.  Each action below is one widget      *)
(* change followed by the whole run.                                       *)
(*                                                                         *)
(* Money is held exactly, in units of 1/Scale pound.  Widget inputs are    *)
(* whole pounds; halving (the taper) and the rates 20%, 40% and 45% are    *)
(* exact on such amounts in units of 1/40 pound.  Binary floating-point    *)
(* rounding of the Python floats is not modelled.                          *)
(***************************************************************************)
EXTENDS Integers, Sequences, FiniteSets, TLC

(***************************************************************************)
(* Bounds of the model                                                     *)
(***************************************************************************)
\* number_input "Number of rental properties" allows 1..20; the model 1..MaxProperties
MaxProperties == 2

\* value=4 of that number_input
DefaultNumProperties == 4

\* units per pound
Scale == 40

Pounds(n) == n * Scale

\* values the user types into the number inputs (whole pounds)
OtherIncomes ==
    { Pounds(n) : n \in {0, 12570, 50270, 56420, 62570,
                         100000, 100001, 112570, 125140, 150000} }
Rents     == { Pounds(n) : n \in {0, 5000, 20000} }
Expenses  == { Pounds(n) : n \in {0, 8000} }
Interests == { Pounds(n) : n \in {0, 10000} }
Names     == {"", "Flat"}

\* options of the "Property type" selectbox
PropertyTypes == {"Residential", "Commercial", "Holiday Let"}

(***************************************************************************)
(* Helpers for Python built-ins                                            *)
(***************************************************************************)
Max(a, b) == IF a >= b THEN a ELSE b

Min(a, b) == IF a <= b THEN a ELSE b

\* x * r / 100 for a rate r given in percent
Pct(x, r) == (x * r) \div 100

\* sum(p[field] for p in props), folded left to right
RECURSIVE SumFrom(_, _, _)
SumFrom(props, field, i) ==
    IF i > Len(props) THEN 0
    ELSE props[i][field] + SumFrom(props, field, i + 1)

\* the fold started one position late
SumField_FromSecond(props, field) == SumFrom(props, field, 2)

\* interest counted among the expenses, as it was deducted before Section 24
SumField_InterestDeducted(props, field) ==
    IF field = "expenses"
    THEN SumFrom(props, "expenses", 1) + SumFrom(props, "interest", 1)
    ELSE SumFrom(props, field, 1)

SumField(props, field) == SumFrom(props, field, 1)

\* f"{x:,.0f}": x rounded to whole pounds, ties to even
FormatPounds0(x) ==
    LET q == x \div Scale
        r == x % Scale
    IN  IF 2 * r < Scale THEN q
        ELSE IF 2 * r > Scale THEN q + 1
        ELSE IF q % 2 = 0 THEN q ELSE q + 1

(***************************************************************************)
(* Widgets                                                                 *)
(***************************************************************************)
\* a property tab whose widgets have never been touched
DefaultWidgets ==
    [name |-> "", type |-> "Residential", rent |-> 0, expenses |-> 0, interest |-> 0]

\* the default name numbered from zero
PropertyName_ZeroBased(name, i) ==
    IF name = "" THEN "Property " \o ToString(i - 1) ELSE name

\* property_name or f"Property {i+1}"  (i is 1-based here)
PropertyName(name, i) == IF name = "" THEN "Property " \o ToString(i) ELSE name

\* the record appended to properties_data for tab i
PropertyRecord(w, i) ==
    [name     |-> PropertyName(w.name, i),
     type     |-> w.type,
     rent     |-> w.rent,
     expenses |-> w.expenses,
     interest |-> w.interest,
     profit   |-> w.rent - w.expenses]

\* the loop "for i in range(int(num_properties))"
BuildProperties(n, sess) == [i \in 1..n |-> PropertyRecord(sess[i], i)]

(***************************************************************************)
(* CALCULATIONS                                                            *)
(***************************************************************************)
personal_allowance_full == Pounds(12570)

taper_threshold == Pounds(100000)

basic_rate_limit == Pounds(37700)

higher_rate_limit == Pounds(125140)

ProfitBeforeInterest(rent, expenses) == rent - expenses

\* a rental loss left out of the income
TaxableIncomeBeforePa_LossIgnored(profit, other) == Max(0, profit) + other

TaxableIncomeBeforePa(profit, other) == profit + other

\* the whole allowance withdrawn as soon as the income passes the threshold
PersonalAllowance_Cliff(income) ==
    IF income > taper_threshold THEN 0 ELSE personal_allowance_full

\* the taper without the floor at zero
PersonalAllowance_NoFloor(income) ==
    IF income > taper_threshold
    THEN personal_allowance_full - (income - taper_threshold) \div 2
    ELSE personal_allowance_full

\* the taper without the halving
PersonalAllowance_NoHalving(income) ==
    IF income > taper_threshold
    THEN Max(0, personal_allowance_full - (income - taper_threshold))
    ELSE personal_allowance_full

PersonalAllowance(income) ==
    IF income > taper_threshold
    THEN LET reduction == (income - taper_threshold) \div 2
         IN  Max(0, personal_allowance_full - reduction)
    ELSE personal_allowance_full

\* the subtraction without the floor at zero
TaxableIncome_NoClamp(income, allowance) == income - allowance

TaxableIncome(income, allowance) == Max(0, income - allowance)

\* the higher rate charged on the whole income instead of the part above the limit
Tax_HigherOnWhole(ti) ==
    IF ti <= basic_rate_limit
    THEN Pct(ti, 20)
    ELSE IF ti <= higher_rate_limit
    THEN Pct(basic_rate_limit, 20) + Pct(ti, 40)
    ELSE Pct(basic_rate_limit, 20)
         + Pct(higher_rate_limit - basic_rate_limit, 40)
         + Pct(ti - higher_rate_limit, 45)

Tax(ti) ==
    IF ti <= basic_rate_limit
    THEN Pct(ti, 20)
    ELSE IF ti <= higher_rate_limit
    THEN Pct(basic_rate_limit, 20) + Pct(ti - basic_rate_limit, 40)
    ELSE Pct(basic_rate_limit, 20)
         + Pct(higher_rate_limit - basic_rate_limit, 40)
         + Pct(ti - higher_rate_limit, 45)

Band(name, income, t) == [Band |-> name, Income |-> income, Tax |-> t]

\* the higher band recorded with the whole income instead of the part in the band
TaxBands_HigherWhole(ti) ==
    IF ti <= basic_rate_limit
    THEN << Band("Basic Rate (20%)", ti, Pct(ti, 20)) >>
    ELSE IF ti <= higher_rate_limit
    THEN << Band("Basic Rate (20%)", basic_rate_limit, Pct(basic_rate_limit, 20)),
            Band("Higher Rate (40%)", ti, Pct(ti - basic_rate_limit, 40)) >>
    ELSE << Band("Basic Rate (20%)", basic_rate_limit, Pct(basic_rate_limit, 20)),
            Band("Higher Rate (40%)", higher_rate_limit - basic_rate_limit,
                 Pct(higher_rate_limit - basic_rate_limit, 40)),
            Band("Additional Rate (45%)", ti - higher_rate_limit,
                 Pct(ti - higher_rate_limit, 45)) >>

TaxBands(ti) ==
    IF ti <= basic_rate_limit
    THEN << Band("Basic Rate (20%)", ti, Pct(ti, 20)) >>
    ELSE IF ti <= higher_rate_limit
    THEN << Band("Basic Rate (20%)", basic_rate_limit, Pct(basic_rate_limit, 20)),
            Band("Higher Rate (40%)", ti - basic_rate_limit,
                 Pct(ti - basic_rate_limit, 40)) >>
    ELSE << Band("Basic Rate (20%)", basic_rate_limit, Pct(basic_rate_limit, 20)),
            Band("Higher Rate (40%)", higher_rate_limit - basic_rate_limit,
                 Pct(higher_rate_limit - basic_rate_limit, 40)),
            Band("Additional Rate (45%)", ti - higher_rate_limit,
                 Pct(ti - higher_rate_limit, 45)) >>

MortgageTaxCredit(interest) == Pct(interest, 20)

\* the subtraction without the floor at zero
FinalTax_NoClamp(t, credit) == t - credit

FinalTax(t, credit) == Max(0, t - credit)

RECURSIVE Gcd(_, _)
Gcd(a, b) == IF b = 0 THEN a ELSE Gcd(b, a % b)

\* the quotient n / d of two amounts, kept exactly as a fraction in lowest terms
\* (den = 0 stands for a division by zero)
Ratio(n, d) ==
    IF d = 0 THEN [num |-> n, den |-> 0]
    ELSE LET g == Gcd(n, d) IN [num |-> n \div g, den |-> d \div g]

\* the guard letting a zero income through to the division
EffectiveRate_ZeroDivisor(ft, income) ==
    IF income >= 0 THEN Ratio(ft * 100, income) ELSE Ratio(0, 1)

\* (final_tax / taxable_income_before_pa * 100) if taxable_income_before_pa > 0 else 0
EffectiveRate(ft, income) ==
    IF income > 0 THEN Ratio(ft * 100, income) ELSE Ratio(0, 1)

(***************************************************************************)
(* TAB 4: WARNINGS                                                         *)
(***************************************************************************)
Warning(severity, title, text, args) ==
    [severity |-> severity, title |-> title,
     message |-> [text |-> text, args |-> args]]

\* [p['name'] for p in props if p['profit'] < 0]
RECURSIVE LossFrom(_, _)
LossFrom(props, i) ==
    IF i > Len(props) THEN << >>
    ELSE (IF props[i].profit < 0 THEN << props[i].name >> ELSE << >>)
         \o LossFrom(props, i + 1)

LossProperties(props) == LossFrom(props, 1)

NoRentCheck(rent) ==
    IF rent = 0
    THEN << Warning("error", "No rental income entered",
                    "Please check your property rental amounts", << >>) >>
    ELSE << >>

ExpensesCheck(expenses, rent) ==
    IF expenses > rent
    THEN << Warning("warning", "Total expenses exceed rental income",
                    "You may have an overall rental loss", << >>) >>
    ELSE << >>

\* the warning from interest equal to the rent on
InterestCheck_AtLeast(interest, rent) ==
    IF interest >= rent
    THEN << Warning("warning", "Mortgage interest exceeds rental income",
                    "This is unusually high and may indicate data entry error", << >>) >>
    ELSE << >>

InterestCheck(interest, rent) ==
    IF interest > rent
    THEN << Warning("warning", "Mortgage interest exceeds rental income",
                    "This is unusually high and may indicate data entry error", << >>) >>
    ELSE << >>

\* the warning carrying the allowance lost instead of the allowance left
TaperCheck_CarriesLoss(income, allowance) ==
    IF income > taper_threshold
    THEN << Warning("info", "Personal allowance taper applies",
                    "Your PA has been reduced to",
                    << FormatPounds0(personal_allowance_full - allowance) >>) >>
    ELSE << >>

TaperCheck(income, allowance) ==
    IF income > taper_threshold
    THEN << Warning("info", "Personal allowance taper applies",
                    "Your PA has been reduced to", << FormatPounds0(allowance) >>) >>
    ELSE << >>

\* a property that merely breaks even counted as loss-making
LossCheck_BreakEven(props) ==
    IF \E i \in 1..Len(props) : props[i].profit <= 0
    THEN << Warning("warning", "Loss-making properties detected",
                    "Properties:", LossProperties(props)) >>
    ELSE << >>

LossCheck(props) ==
    IF \E i \in 1..Len(props) : props[i].profit < 0
    THEN << Warning("warning", "Loss-making properties detected",
                    "Properties:", LossProperties(props)) >>
    ELSE << >>

\* the advisory from 10000 on instead of above it
HighTaxCheck_AtLeast(ft) ==
    IF ft >= Pounds(10000)
    THEN << Warning("info", "High tax liability",
                    "Consider making advance payments on account to avoid interest",
                    << >>) >>
    ELSE << >>

HighTaxCheck(ft) ==
    IF ft > Pounds(10000)
    THEN << Warning("info", "High tax liability",
                    "Consider making advance payments on account to avoid interest",
                    << >>) >>
    ELSE << >>

Warnings(props, rent, expenses, interest, income, allowance, ft) ==
    NoRentCheck(rent) \o ExpensesCheck(expenses, rent) \o InterestCheck(interest, rent)
    \o TaperCheck(income, allowance) \o LossCheck(props) \o HighTaxCheck(ft)

(***************************************************************************)
(* TAB 3: tax efficiency insights                                          *)
(***************************************************************************)
\* pa_loss = personal_allowance_full - personal_allowance
PaLoss(allowance) == personal_allowance_full - allowance

\* the "Personal Allowance Taper" box: "You've lost {pa_loss:,.0f} of your personal allowance"
TaperInsight(income, allowance) ==
    IF income > taper_threshold
    THEN << [title |-> "Personal Allowance Taper",
             args  |-> << FormatPounds0(PaLoss(allowance)) >>] >>
    ELSE << >>

(***************************************************************************)
(* One run of the script                                                   *)
(***************************************************************************)
\* the CALCULATIONS section, in the order of the script
Calculations(props, other) ==
    LET rent       == SumField(props, "rent")
        expenses   == SumField(props, "expenses")
        interest   == SumField(props, "interest")
        profit     == ProfitBeforeInterest(rent, expenses)
        income     == TaxableIncomeBeforePa(profit, other)
        allowance  == PersonalAllowance(income)
        ti         == TaxableIncome(income, allowance)
        t          == Tax(ti)
        credit     == MortgageTaxCredit(interest)
        ft         == FinalTax(t, credit)
    IN  [total_rent               |-> rent,
         total_expenses           |-> expenses,
         total_interest           |-> interest,
         profit_before_interest   |-> profit,
         taxable_income_before_pa |-> income,
         personal_allowance       |-> allowance,
         taxable_income           |-> ti,
         tax_bands                |-> TaxBands(ti),
         tax                      |-> t,
         mortgage_tax_credit      |-> credit,
         final_tax                |-> ft,
         effective_rate           |-> EffectiveRate(ft, income)]

\* the warnings list built in tab 4 from the figures c of a run
WarningsOf(props, c) ==
    Warnings(props, c.total_rent, c.total_expenses, c.total_interest,
             c.taxable_income_before_pa, c.personal_allowance, c.final_tax)

\* everything a run leaves behind: properties_data, the figures, the warnings
RunScript(n, sess, other) ==
    LET props == BuildProperties(n, sess)
        c     == Calculations(props, other)
    IN  [properties_data |-> props, figures |-> c, warnings |-> WarningsOf(props, c)]

(***************************************************************************)
(* State                                                                   *)
(***************************************************************************)
VARIABLES
    other_income,            \* widget "Other taxable income"
    num_properties,          \* widget "Number of rental properties"
    session,                 \* per-tab widgets name_i, type_i, rent_i, exp_i, int_i
    properties_data,
    total_rent, total_expenses, total_interest,
    profit_before_interest, taxable_income_before_pa,
    personal_allowance, taxable_income,
    tax_bands, tax,
    mortgage_tax_credit, final_tax, effective_rate,
    warnings

inputs == << other_income, num_properties, session >>

figures == << total_rent, total_expenses, total_interest, profit_before_interest,
              taxable_income_before_pa, personal_allowance, taxable_income,
              tax_bands, tax, mortgage_tax_credit, final_tax, effective_rate >>

vars == << inputs, properties_data, figures, warnings >>

\* the script's variables hold what the run r left behind
Shows(r, props, rent, expenses, interest, profit, income, allowance, ti, bands, t, credit, ft, rate, warns) ==
    /\ props = r.properties_data
    /\ rent = r.figures.total_rent
    /\ expenses = r.figures.total_expenses
    /\ interest = r.figures.total_interest
    /\ profit = r.figures.profit_before_interest
    /\ income = r.figures.taxable_income_before_pa
    /\ allowance = r.figures.personal_allowance
    /\ ti = r.figures.taxable_income
    /\ bands = r.figures.tax_bands
    /\ t = r.figures.tax
    /\ credit = r.figures.mortgage_tax_credit
    /\ ft = r.figures.final_tax
    /\ rate = r.figures.effective_rate
    /\ warns = r.warnings

\* the run over the widget values of the next state
Rerun ==
    \E r \in {RunScript(num_properties', session', other_income')} :
        Shows(r, properties_data', total_rent', total_expenses', total_interest',
              profit_before_interest', taxable_income_before_pa', personal_allowance',
              taxable_income', tax_bands', tax', mortgage_tax_credit', final_tax',
              effective_rate', warnings')

\* the first run of a fresh session: every widget at its default
Init ==
    /\ other_income = 0
    /\ num_properties = Min(DefaultNumProperties, MaxProperties)
    /\ session = [i \in 1..num_properties |-> DefaultWidgets]
    /\ \E r \in {RunScript(num_properties, session, other_income)} :
        Shows(r, properties_data, total_rent, total_expenses, total_interest,
              profit_before_interest, taxable_income_before_pa, personal_allowance,
              taxable_income, tax_bands, tax, mortgage_tax_credit, final_tax,
              effective_rate, warnings)

(***************************************************************************)
(* Widget changes                                                          *)
(***************************************************************************)
SetOtherIncome(v) ==
    /\ v # other_income
    /\ other_income' = v
    /\ UNCHANGED << num_properties, session >>
    /\ Rerun

\* tabs beyond the new count lose their widget state, new tabs start at the defaults
SetNumProperties(n) ==
    /\ n # num_properties
    /\ num_properties' = n
    /\ session' = [i \in 1..n |-> IF i <= num_properties THEN session[i]
                                  ELSE DefaultWidgets]
    /\ UNCHANGED other_income
    /\ Rerun

SetWidget(i, field, v) ==
    /\ i \in 1..num_properties
    /\ session[i][field] # v
    /\ session' = [session EXCEPT ![i][field] = v]
    /\ UNCHANGED << other_income, num_properties >>
    /\ Rerun

SetRent(i, v) == SetWidget(i, "rent", v)

SetExpenses(i, v) == SetWidget(i, "expenses", v)

SetInterest(i, v) == SetWidget(i, "interest", v)

SetName(i, s) == SetWidget(i, "name", s)

SetType(i, t) == SetWidget(i, "type", t)

Next ==
    \/ \E v \in OtherIncomes : SetOtherIncome(v)
    \/ \E n \in 1..MaxProperties : SetNumProperties(n)
    \/ \E i \in 1..MaxProperties, v \in Rents : SetRent(i, v)
    \/ \E i \in 1..MaxProperties, v \in Expenses : SetExpenses(i, v)
    \/ \E i \in 1..MaxProperties, v \in Interests : SetInterest(i, v)

Spec == Init /\ [][Next]_vars

(***************************************************************************)
(* Mortgage interest credit and final tax                                  *)
(***************************************************************************)
\* C1: final_tax equals max(0, tax - mortgage_tax_credit), is never negative,
\* and is exactly 0 whenever the credit is at least the tax before credit.
C1_FinalTaxClamped ==
    /\ final_tax >= 0
    /\ (tax - mortgage_tax_credit >= 0 => final_tax = tax - mortgage_tax_credit)
    /\ (tax - mortgage_tax_credit < 0 => final_tax = 0)
    /\ (mortgage_tax_credit >= tax => final_tax = 0)

\* tax 1000, interest 10000 (credit 2000): the credit exceeds the tax
C1_Witness ==
    /\ tax = Pounds(1000)
    /\ total_interest = Pounds(10000)
    /\ mortgage_tax_credit = Pounds(2000)
    /\ final_tax = 0

(***************************************************************************)
(* Personal allowance taper                                                *)
(***************************************************************************)
\* C2: personal_allowance is 12570 at incomes up to 100000 (negative ones
\* included) and max(0, 12570 - (income - 100000)/2) above; it lies in
\* [0, 12570], is 12570 at 100000, 6285 at 112570 and 0 from 125140 on.
C2_PersonalAllowanceTaper ==
    LET x == taxable_income_before_pa
        A == Pounds(12570)
        T == Pounds(100000)
    IN  /\ (x <= T => personal_allowance = A)
        /\ (x > T /\ 2 * A >= x - T => 2 * personal_allowance = 2 * A - (x - T))
        /\ (x > T /\ 2 * A < x - T => personal_allowance = 0)
        /\ personal_allowance >= 0
        /\ personal_allowance <= A
        /\ (x = Pounds(100000) => personal_allowance = Pounds(12570))
        /\ (x = Pounds(112570) => personal_allowance = Pounds(6285))
        /\ (x >= Pounds(125140) => personal_allowance = 0)

\* half way down the taper
C2_Witness ==
    /\ taxable_income_before_pa = Pounds(112570)
    /\ personal_allowance = Pounds(6285)

(***************************************************************************)
(* Banded tax                                                              *)
(***************************************************************************)
\* the band table of the specification: width (0 = unbounded) and rate in percent
C3_Bands ==
    << [width |-> Pounds(37700), rate |-> 20],
       [width |-> Pounds(125140) - Pounds(37700), rate |-> 40],
       [width |-> 0, rate |-> 45] >>

\* walk the bands from band k on, taxing min(remaining, width) in each
RECURSIVE C3_BandWalk(_, _)
C3_BandWalk(remaining, k) ==
    IF k > Len(C3_Bands) \/ remaining <= 0 THEN 0
    ELSE LET b    == C3_Bands[k]
             part == IF b.width = 0 THEN remaining ELSE Min(remaining, b.width)
         IN  (part * b.rate) \div 100 + C3_BandWalk(remaining - part, k + 1)

\* C3: for every taxable_income >= 0 the tax of the three-way branch equals the
\* band walk; 37700 -> 7540, 50000 -> 12460, 150000 -> 53703.
C3_TaxIsBandWalk ==
    /\ (taxable_income >= 0 => tax = C3_BandWalk(taxable_income, 1))
    /\ (taxable_income = Pounds(37700) => tax = Pounds(7540))
    /\ (taxable_income = Pounds(50000) => tax = Pounds(12460))
    /\ (taxable_income = Pounds(150000) => tax = Pounds(53703))

\* an income in the additional-rate band
C3_Witness ==
    /\ taxable_income = Pounds(150000)
    /\ tax = Pounds(53703)

BandNames(bands) == [k \in 1..Len(bands) |-> bands[k].Band]

\* C4: tax_bands lists only the bands applied: none at taxable_income = 0 (tax 0),
\* one (Basic) for 0 < taxable_income <= 37700, two up to 125140, three above.
C4_OnlyAppliedBands ==
    /\ (taxable_income = 0 => tax_bands = << >> /\ tax = 0)
    /\ (0 < taxable_income /\ taxable_income <= Pounds(37700)
            => BandNames(tax_bands) = << "Basic Rate (20%)" >>)
    /\ (Pounds(37700) < taxable_income /\ taxable_income <= Pounds(125140)
            => Len(tax_bands) = 2)
    /\ (taxable_income > Pounds(125140) => Len(tax_bands) = 3)

(***************************************************************************)
(* Taxable income                                                          *)
(***************************************************************************)
\* C5: taxable_income equals max(0, taxable_income_before_pa - personal_allowance)
\* and is never negative, also with a negative profit_before_interest and with
\* an income below the allowance.
C5_TaxableIncomeClamped ==
    LET d == taxable_income_before_pa - personal_allowance
    IN  /\ taxable_income >= 0
        /\ (d >= 0 => taxable_income = d)
        /\ (d < 0 => taxable_income = 0)

\* an overall rental loss that leaves the income before allowance negative
C5_Witness ==
    /\ profit_before_interest < 0
    /\ taxable_income_before_pa < 0
    /\ taxable_income = 0

(***************************************************************************)
(* Signs of the figures                                                    *)
(***************************************************************************)
\* the figures other than the profits and taxable_income_before_pa
C6_UnsignedFigures ==
    /\ total_rent >= 0 /\ total_expenses >= 0 /\ total_interest >= 0
    /\ personal_allowance >= 0 /\ taxable_income >= 0
    /\ \A k \in 1..Len(tax_bands) : tax_bands[k].Income >= 0 /\ tax_bands[k].Tax >= 0
    /\ tax >= 0 /\ mortgage_tax_credit >= 0 /\ final_tax >= 0
    /\ effective_rate.num >= 0 /\ effective_rate.den > 0

\* C6 as stated: every figure but the profits is non-negative for non-negative
\* inputs, taxable_income_before_pa in particular.
C6_AllNonNegative ==
    /\ C6_UnsignedFigures
    /\ taxable_income_before_pa >= 0

\* C6: every figure but the profits and taxable_income_before_pa is non-negative
\* for non-negative inputs; taxable_income_before_pa is signed too, and is
\* non-negative exactly when total_expenses <= total_rent + other_income.
C6_NonNegativeExceptSigned ==
    /\ C6_UnsignedFigures
    /\ (taxable_income_before_pa >= 0 <=> total_expenses <= total_rent + other_income)

\* expenses above rent plus other income
C6_Witness ==
    /\ total_expenses > total_rent + other_income
    /\ taxable_income_before_pa < 0
    /\ personal_allowance = Pounds(12570)

(***************************************************************************)
(* Order of the property list                                              *)
(***************************************************************************)
\* the sum of a field over the set S of positions, in no particular order
RECURSIVE C7_SetSum(_, _, _)
C7_SetSum(props, field, S) ==
    IF S = {} THEN 0
    ELSE LET i == CHOOSE j \in S : TRUE
         IN  props[i][field] + C7_SetSum(props, field, S \ {i})

FlagTitles(warns) == { warns[k].title : k \in 1..Len(warns) }

\* C7: the totals are the plain sums of the per-property fields, and the run over
\* any permutation of the property tabs gives the same totals, allowance, taxable
\* income, tax, credit, final tax and the same set of warnings.
C7_OrderIndependent ==
    /\ total_rent = C7_SetSum(properties_data, "rent", DOMAIN properties_data)
    /\ total_expenses = C7_SetSum(properties_data, "expenses", DOMAIN properties_data)
    /\ total_interest = C7_SetSum(properties_data, "interest", DOMAIN properties_data)
    /\ \A pi \in Permutations(1..num_properties) :
         \E r \in {RunScript(num_properties,
                             [i \in 1..num_properties |-> session[pi[i]]],
                             other_income)} :
            /\ r.figures.total_rent = total_rent
            /\ r.figures.total_expenses = total_expenses
            /\ r.figures.total_interest = total_interest
            /\ r.figures.profit_before_interest = profit_before_interest
            /\ r.figures.taxable_income_before_pa = taxable_income_before_pa
            /\ r.figures.personal_allowance = personal_allowance
            /\ r.figures.taxable_income = taxable_income
            /\ r.figures.tax = tax
            /\ r.figures.mortgage_tax_credit = mortgage_tax_credit
            /\ r.figures.final_tax = final_tax
            /\ FlagTitles(r.warnings) = FlagTitles(warnings)

\* two properties that differ in every amount, the second one making a loss
C7_Witness ==
    /\ num_properties >= 2
    /\ properties_data[1].rent > properties_data[2].rent
    /\ properties_data[1].expenses < properties_data[2].expenses
    /\ properties_data[1].interest # properties_data[2].interest
    /\ properties_data[2].profit < 0
    /\ total_rent = properties_data[1].rent + properties_data[2].rent

(***************************************************************************)
(* Section 24: interest is credited, never deducted                        *)
(***************************************************************************)
\* a step in which only interest widgets change
C8_InterestOnlyChange ==
    /\ other_income' = other_income
    /\ num_properties' = num_properties
    /\ session' # session
    /\ \A i \in 1..num_properties :
          /\ session'[i].rent = session[i].rent
          /\ session'[i].expenses = session[i].expenses
          /\ session'[i].name = session[i].name
          /\ session'[i].type = session[i].type

\* C8: mortgage_tax_credit is exactly 20% of total_interest, whatever the tax
\* before credit, and a change of interest inputs alone leaves total_rent,
\* total_expenses, profit_before_interest, taxable_income_before_pa,
\* personal_allowance, taxable_income, tax_bands and tax unchanged.
C8_InterestOnlyCredited ==
    /\ [](5 * mortgage_tax_credit = total_interest)
    /\ [][C8_InterestOnlyChange =>
            UNCHANGED << total_rent, total_expenses, profit_before_interest,
                         taxable_income_before_pa, personal_allowance,
                         taxable_income, tax_bands, tax >>]_vars

\* a credit above the tax before credit
C8_Witness ==
    /\ tax > 0
    /\ mortgage_tax_credit > tax
    /\ 5 * mortgage_tax_credit = total_interest
    /\ profit_before_interest = total_rent - total_expenses

(***************************************************************************)
(* Effective rate                                                          *)
(***************************************************************************)
\* C9 as stated: effective_rate is the ratio final_tax / taxable_income_before_pa
\* when that income is positive, and 0 otherwise.
C9_RateIsRatio ==
    /\ (taxable_income_before_pa > 0 =>
            effective_rate = Ratio(final_tax, taxable_income_before_pa))
    /\ (taxable_income_before_pa <= 0 => effective_rate.num = 0)

\* C9: effective_rate is the percentage 100 * final_tax / taxable_income_before_pa
\* when that income is positive, and 0 otherwise; its divisor is never zero.
C9_RateIsPercentage ==
    /\ effective_rate.den # 0
    /\ (taxable_income_before_pa > 0 =>
            effective_rate = Ratio(100 * final_tax, taxable_income_before_pa))
    /\ (taxable_income_before_pa <= 0 => effective_rate.num = 0)

\* tax 12460 on an income of 62570: 19.9 per cent, not 0.199
C9_Witness ==
    /\ taxable_income_before_pa = Pounds(62570)
    /\ final_tax = Pounds(12460)
    /\ effective_rate = Ratio(100 * 12460, 62570)

(***************************************************************************)
(* Warnings                                                                *)
(***************************************************************************)
HasFlag(title) == \E k \in 1..Len(warnings) : warnings[k].title = title

\* positions of the properties with rent - expenses < 0
C10_LossMakers ==
    { i \in 1..Len(properties_data) :
        properties_data[i].rent - properties_data[i].expenses < 0 }

\* C10: each of the six warnings is present exactly when its condition holds on
\* the figures of the run (the taper and the high-tax ones strictly above their
\* limits), the loss warning names exactly the loss-making properties, and the
\* figures are those the calculations produced.
C10_FlagsIffConditions ==
    /\ HasFlag("No rental income entered") <=> total_rent = 0
    /\ HasFlag("Total expenses exceed rental income") <=> total_expenses > total_rent
    /\ HasFlag("Mortgage interest exceeds rental income") <=> total_interest > total_rent
    /\ HasFlag("Personal allowance taper applies")
           <=> taxable_income_before_pa > Pounds(100000)
    /\ HasFlag("Loss-making properties detected") <=> C10_LossMakers # {}
    /\ HasFlag("High tax liability") <=> final_tax > Pounds(10000)
    /\ \A k \in 1..Len(warnings) :
          warnings[k].title = "Loss-making properties detected" =>
             LET named == warnings[k].message.args
             IN  /\ Len(named) = Cardinality(C10_LossMakers)
                 /\ { named[j] : j \in 1..Len(named) }
                      = { properties_data[i].name : i \in C10_LossMakers }
    /\ \A k, l \in 1..Len(warnings) : warnings[k].title = warnings[l].title => k = l
    /\ \E c \in {Calculations(properties_data, other_income)} :
          /\ total_rent = c.total_rent
          /\ total_expenses = c.total_expenses
          /\ total_interest = c.total_interest
          /\ taxable_income_before_pa = c.taxable_income_before_pa
          /\ personal_allowance = c.personal_allowance
          /\ taxable_income = c.taxable_income
          /\ tax = c.tax
          /\ final_tax = c.final_tax

\* five warnings at once, the second property being the only loss-maker
C10_Witness ==
    /\ HasFlag("No rental income entered")
    /\ HasFlag("Total expenses exceed rental income")
    /\ HasFlag("Personal allowance taper applies")
    /\ HasFlag("High tax liability")
    /\ \E k \in 1..Len(warnings) :
          /\ warnings[k].title = "Loss-making properties detected"
          /\ warnings[k].message.args = << "Property 2" >>

(***************************************************************************)
(* Which warnings can fire together                                        *)
(***************************************************************************)
\* amounts typed in the runs that explore the combinations of warnings
FlagOtherIncomes == { Pounds(n) : n \in {0, 60000, 120000} }
FlagRents        == { Pounds(n) : n \in {0, 1000, 100000} }
FlagExpenses     == { Pounds(n) : n \in {0, 2000, 60000} }
FlagInterests    == { Pounds(n) : n \in {0, 5000, 90000} }

NextFlags ==
    \/ \E v \in FlagOtherIncomes : SetOtherIncome(v)
    \/ \E n \in 1..MaxProperties : SetNumProperties(n)
    \/ \E i \in 1..MaxProperties, v \in FlagRents : SetRent(i, v)
    \/ \E i \in 1..MaxProperties, v \in FlagExpenses : SetExpenses(i, v)
    \/ \E i \in 1..MaxProperties, v \in FlagInterests : SetInterest(i, v)

SpecFlags == Init /\ [][NextFlags]_vars

C11_Flags ==
    { "No rental income entered",
      "Total expenses exceed rental income",
      "Mortgage interest exceeds rental income",
      "Personal allowance taper applies",
      "Loss-making properties detected",
      "High tax liability" }

\* the widget values a session of SpecFlags can hold
C11_Widgets ==
    { [name |-> "", type |-> "Residential", rent |-> r, expenses |-> e, interest |-> i] :
        r \in FlagRents, e \in FlagExpenses, i \in FlagInterests }

\* the sets of warnings raised by the runs over those widget values
C11_FiredSets ==
    UNION { { FlagTitles(RunScript(n, sess, other).warnings) :
                sess \in [1..n -> C11_Widgets], other \in FlagOtherIncomes } :
            n \in 1..MaxProperties }

\* the combinations the conditions allow: total expenses above total rent need a
\* loss-making property; with no rent at all a loss-making property puts the
\* expenses above the rent; and with no rent, an income above 100000 is taxed
\* above 10000 unless interest (which then exceeds the rent) is credited
C11_Compatible(S) ==
    /\ ("Total expenses exceed rental income" \in S
            => "Loss-making properties detected" \in S)
    /\ ("No rental income entered" \in S /\ "Loss-making properties detected" \in S
            => "Total expenses exceed rental income" \in S)
    /\ ("No rental income entered" \in S /\ "Personal allowance taper applies" \in S
            => \/ "High tax liability" \in S
               \/ "Mortgage interest exceeds rental income" \in S)

\* C11 as stated: every subset of the six warnings is raised by some valid input,
\* that of the run at hand or another one.
C11_AnySubsetFires ==
    \A S \in SUBSET C11_Flags : S = FlagTitles(warnings) \/ S \in C11_FiredSets

\* C11: the six rules are evaluated one by one, and a subset of the six warnings
\* is raised by some valid input exactly when it is compatible with the rules'
\* conditions; all six can fire at once.
C11_CompatibleSubsetsFire ==
    /\ FlagTitles(warnings) \subseteq C11_Flags
    /\ C11_Compatible(FlagTitles(warnings))
    /\ \A S \in SUBSET C11_Flags : C11_Compatible(S) <=> S \in C11_FiredSets

\* all six warnings at once
C11_Witness == FlagTitles(warnings) = C11_Flags

(***************************************************************************)
(* What the taper warning carries                                          *)
(***************************************************************************)
\* the amounts carried by the taper warning of the run
C12_TaperCarried ==
    { warnings[k].message.args :
        k \in { j \in 1..Len(warnings) :
                  warnings[j].title = "Personal allowance taper applies" } }

\* C12 as stated: whenever the taper warning fires, the value it carries is the
\* allowance lost, 12570 - personal_allowance, which is positive and at most 12570.
C12_TaperCarriesLoss ==
    HasFlag("Personal allowance taper applies") =>
        /\ C12_TaperCarried = { << FormatPounds0(Pounds(12570) - personal_allowance) >> }
        /\ Pounds(12570) - personal_allowance > 0
        /\ Pounds(12570) - personal_allowance <= Pounds(12570)

\* C12: whenever the taper warning fires, the value it carries is the allowance
\* left, personal_allowance in whole pounds; the allowance lost,
\* 12570 - personal_allowance, is positive and at most 12570 and is what the
\* taper insight box shows, in whole pounds, under the same condition.
C12_TaperCarriesAllowanceLeft ==
    /\ HasFlag("Personal allowance taper applies") =>
        /\ taxable_income_before_pa > Pounds(100000)
        /\ C12_TaperCarried = { << FormatPounds0(personal_allowance) >> }
        /\ Pounds(12570) - personal_allowance > 0
        /\ Pounds(12570) - personal_allowance <= Pounds(12570)
        /\ \E shown \in 0..12570 :
              /\ TaperInsight(taxable_income_before_pa, personal_allowance)
                   = << [title |-> "Personal Allowance Taper", args |-> << shown >>] >>
              /\ 2 * (shown * Scale - (Pounds(12570) - personal_allowance)) <= Scale
              /\ 2 * ((Pounds(12570) - personal_allowance) - shown * Scale) <= Scale
    /\ ~HasFlag("Personal allowance taper applies") =>
        TaperInsight(taxable_income_before_pa, personal_allowance) = << >>

\* the allowance tapered away entirely: the warning carries 0, the box 12570
C12_Witness ==
    /\ taxable_income_before_pa = Pounds(150000)
    /\ C12_TaperCarried = { << 0 >> }
    /\ TaperInsight(taxable_income_before_pa, personal_allowance)[1].args = << 12570 >>

(***************************************************************************)
(* Zero input                                                              *)
(***************************************************************************)
\* no other income and every property with rent, expenses and interest 0
C13_ZeroInput ==
    /\ other_income = 0
    /\ \A i \in 1..Len(properties_data) :
          /\ properties_data[i].rent = 0
          /\ properties_data[i].expenses = 0
          /\ properties_data[i].interest = 0

\* the figures c other than the allowance are zero and the warnings are warns
C13_ZeroFigures(c, warns) ==
    /\ c.total_rent = 0 /\ c.total_expenses = 0 /\ c.total_interest = 0
    /\ c.profit_before_interest = 0 /\ c.taxable_income_before_pa = 0
    /\ c.taxable_income = 0 /\ c.tax = 0
    /\ c.mortgage_tax_credit = 0 /\ c.final_tax = 0
    /\ c.effective_rate = [num |-> 0, den |-> 1]
    /\ FlagTitles(warns) = { "No rental income entered" }

\* the figures of the run, as a record
C13_Shown ==
    [total_rent               |-> total_rent,
     total_expenses           |-> total_expenses,
     total_interest           |-> total_interest,
     profit_before_interest   |-> profit_before_interest,
     taxable_income_before_pa |-> taxable_income_before_pa,
     personal_allowance       |-> personal_allowance,
     taxable_income           |-> taxable_income,
     tax                      |-> tax,
     mortgage_tax_credit      |-> mortgage_tax_credit,
     final_tax                |-> final_tax,
     effective_rate           |-> effective_rate]

\* C13 as stated: with zero input every output is zero, personal_allowance
\* included, and "no rental income" is the only warning.
C13_AllOutputsZero ==
    C13_ZeroInput =>
        /\ C13_ZeroFigures(C13_Shown, warnings)
        /\ personal_allowance = 0

\* C13: with zero input (an empty portfolio, or properties with rent, expenses
\* and interest 0, and no other income) every output is zero except
\* personal_allowance, which is the full 12570, and "no rental income" is the
\* only warning.
C13_ZeroOutputsFullAllowance ==
    /\ C13_ZeroInput =>
        /\ C13_ZeroFigures(C13_Shown, warnings)
        /\ personal_allowance = Pounds(12570)
    /\ \E r \in {RunScript(0, << >>, 0)} :
        /\ r.properties_data = << >>
        /\ C13_ZeroFigures(r.figures, r.warnings)
        /\ r.figures.personal_allowance = Pounds(12570)

\* a single property left at zero, after the number of properties was changed
C13_Witness ==
    /\ C13_ZeroInput
    /\ num_properties = 1
    /\ personal_allowance = Pounds(12570)
    /\ Len(warnings) = 1

(***************************************************************************)
(* Rental losses                                                           *)
(***************************************************************************)
\* C14: whenever total_expenses > total_rent some property has a negative profit,
\* so the "expenses exceed rent" and the "loss-making properties" warnings both
\* fire; the negative profit is folded into the income
\* (taxable_income_before_pa = other_income + profit_before_interest) and
\* final_tax is the banded tax on the income so reduced, less the credit,
\* floored at zero.  One property with rent 5000 and expenses 8000: profit -3000.
C14_LossFolded ==
    /\ total_expenses > total_rent =>
        /\ \E i \in 1..Len(properties_data) : properties_data[i].profit < 0
        /\ HasFlag("Total expenses exceed rental income")
        /\ HasFlag("Loss-making properties detected")
        /\ profit_before_interest = total_rent - total_expenses
        /\ profit_before_interest < 0
        /\ taxable_income_before_pa = other_income + profit_before_interest
        /\ taxable_income_before_pa < other_income
        /\ final_tax =
             Max(0, C3_BandWalk(Max(0, taxable_income_before_pa - personal_allowance), 1)
                      - mortgage_tax_credit)
    /\ \A i \in 1..Len(properties_data) :
          properties_data[i].rent = Pounds(5000) /\ properties_data[i].expenses = Pounds(8000)
              => properties_data[i].profit = -Pounds(3000)

\* the single property of the example, with other income that is still taxed
C14_Witness ==
    /\ num_properties = 1
    /\ properties_data[1].rent = Pounds(5000)
    /\ properties_data[1].expenses = Pounds(8000)
    /\ properties_data[1].interest = 0
    /\ properties_data[1].profit = -Pounds(3000)
    /\ HasFlag("Total expenses exceed rental income")
    /\ HasFlag("Loss-making properties detected")
    /\ other_income = Pounds(62570)
    /\ final_tax = Pounds(11260)

(***************************************************************************)
(* Names, types and earlier runs                                           *)
(***************************************************************************)
\* amounts typed in the runs that also edit names and types
LabelOtherIncomes == { Pounds(n) : n \in {0, 150000} }
LabelRents        == { Pounds(n) : n \in {0, 20000} }
LabelInterests    == { Pounds(n) : n \in {0, 10000} }

NextLabels ==
    \/ \E v \in LabelOtherIncomes : SetOtherIncome(v)
    \/ \E n \in 1..MaxProperties : SetNumProperties(n)
    \/ \E i \in 1..MaxProperties, v \in LabelRents : SetRent(i, v)
    \/ \E i \in 1..MaxProperties, v \in LabelInterests : SetInterest(i, v)
    \/ \E i \in 1..MaxProperties, v \in Names : SetName(i, v)
    \/ \E i \in 1..MaxProperties, t \in PropertyTypes : SetType(i, t)

SpecLabels == Init /\ [][NextLabels]_vars

\* the widgets with every name and type put back to its default
C15_Unlabelled ==
    [i \in 1..num_properties |->
        [session[i] EXCEPT !.name = DefaultWidgets.name, !.type = DefaultWidgets.type]]

\* the figures are those of a first run over the same amounts, unnamed and untyped
C15_FiguresFromAmounts ==
    \E r \in {RunScript(num_properties, C15_Unlabelled, other_income)} :
        /\ total_rent = r.figures.total_rent
        /\ total_expenses = r.figures.total_expenses
        /\ total_interest = r.figures.total_interest
        /\ profit_before_interest = r.figures.profit_before_interest
        /\ taxable_income_before_pa = r.figures.taxable_income_before_pa
        /\ personal_allowance = r.figures.personal_allowance
        /\ taxable_income = r.figures.taxable_income
        /\ tax_bands = r.figures.tax_bands
        /\ tax = r.figures.tax
        /\ mortgage_tax_credit = r.figures.mortgage_tax_credit
        /\ final_tax = r.figures.final_tax
        /\ effective_rate = r.figures.effective_rate

\* an absent name becomes "Property N", N the 1-based position; a given name is kept
C15_NamesDefaulted ==
    \A i \in 1..num_properties :
        properties_data[i].name =
            IF session[i].name = "" THEN "Property " \o ToString(i) ELSE session[i].name

\* a step that leaves other income and every rent, expenses and interest as they were
C15_SameAmounts ==
    /\ other_income' = other_income
    /\ num_properties' = num_properties
    /\ \A i \in 1..num_properties :
          /\ session'[i].rent = session[i].rent
          /\ session'[i].expenses = session[i].expenses
          /\ session'[i].interest = session[i].interest

\* C15: runs whose inputs agree on other income and on every property's rent,
\* expenses and interest give identical figures, whatever ran before and whatever
\* the names and types; an absent name only defaults to "Property N", N the
\* 1-based position.
C15_Deterministic ==
    /\ [](C15_FiguresFromAmounts /\ C15_NamesDefaulted)
    /\ [][C15_SameAmounts => UNCHANGED figures]_vars

\* a named commercial property next to an unnamed one
C15_Witness ==
    /\ num_properties >= 2
    /\ session[1].name = "Flat" /\ properties_data[1].name = "Flat"
    /\ properties_data[1].type = "Commercial"
    /\ session[2].name = "" /\ properties_data[2].name = "Property 2"
    /\ total_rent = Pounds(40000)
    /\ final_tax > 0

(***************************************************************************)
(* Shape of the band list                                                  *)
(***************************************************************************)
C16_BandOrder == << "Basic Rate (20%)", "Higher Rate (40%)", "Additional Rate (45%)" >>

\* C16: the recorded bands are a prefix of Basic, Higher, Additional; their
\* incomes sum to taxable_income and their taxes to tax; Basic holds at most
\* 37700 and Higher at most 87440; a later band is recorded only when every
\* earlier band is full.
C16_BandsWellFormed ==
    LET n == Len(tax_bands)
    IN  /\ n <= Len(C16_BandOrder)
        /\ BandNames(tax_bands) = SubSeq(C16_BandOrder, 1, n)
        /\ C7_SetSum(tax_bands, "Income", DOMAIN tax_bands) = taxable_income
        /\ C7_SetSum(tax_bands, "Tax", DOMAIN tax_bands) = tax
        /\ (n >= 1 => tax_bands[1].Income <= Pounds(37700))
        /\ (n >= 2 => tax_bands[2].Income <= Pounds(87440))
        /\ (n >= 2 => tax_bands[1].Income = Pounds(37700))
        /\ (n >= 3 => tax_bands[2].Income = Pounds(87440))

\* three bands, the first two full
C16_Witness ==
    /\ taxable_income = Pounds(150000)
    /\ Len(tax_bands) = 3
    /\ tax_bands[1].Income = Pounds(37700)
    /\ tax_bands[2].Income = Pounds(87440)
    /\ tax_bands[3].Income = Pounds(24860)

(***************************************************************************)
(* Marginal rate in the taper zone                                         *)
(***************************************************************************)
\* the tax before credit on an income x before allowance
C17_TaxAt(x) == Tax(TaxableIncome(x, PersonalAllowance(x)))

\* 1.20 pounds
C17_Step == Pounds(6) \div 5

\* whole-pound incomes over which the tax is compared, from a rental loss up to
\* well inside the additional rate
C17_Incomes == (0 - 20000)..200000

\* every whole-pound income x with 100000 <= x and x + 2 <= 125140: the taxable
\* income stays within the 40% band and 2 more income cost 1.20 more tax
C17_SixtyPercentEverywhere ==
    \A x \in 100000..(125140 - 2) :
        /\ TaxableIncome(Pounds(x + 2), PersonalAllowance(Pounds(x + 2)))
              <= Pounds(125140)
        /\ TaxableIncome(Pounds(x), PersonalAllowance(Pounds(x))) > Pounds(37700)
        /\ PersonalAllowance(Pounds(x)) - PersonalAllowance(Pounds(x + 2)) = Pounds(1)
        /\ C17_TaxAt(Pounds(x + 2)) - C17_TaxAt(Pounds(x)) = C17_Step

\* the tax never falls from one whole pound of income to the next
C17_MonotoneEverywhere ==
    \A x \in C17_Incomes : C17_TaxAt(Pounds(x)) <= C17_TaxAt(Pounds(x + 1))

\* C17: across the taper zone the marginal rate is 60%: for every income x before
\* allowance with 100000 <= x and x + 2 <= 125140 the tax at x + 2 exceeds the
\* tax at x by exactly 1.20; and the tax never decreases with the income.
C17_TaperMarginalRate ==
    /\ tax = C17_TaxAt(taxable_income_before_pa)
    /\ (/\ Pounds(100000) <= taxable_income_before_pa
        /\ taxable_income_before_pa + Pounds(2) <= Pounds(125140)
        => C17_TaxAt(taxable_income_before_pa + Pounds(2)) = tax + C17_Step)
    /\ \A y \in OtherIncomes :
          /\ (y <= taxable_income_before_pa => C17_TaxAt(y) <= tax)
          /\ (y >= taxable_income_before_pa => C17_TaxAt(y) >= tax)
    /\ C17_SixtyPercentEverywhere
    /\ C17_MonotoneEverywhere

\* a run inside the taper zone, with rental profit on top of other income
C17_Witness ==
    /\ other_income = Pounds(100001)
    /\ taxable_income_before_pa = Pounds(105001)
    /\ personal_allowance = Pounds(12570) - (Pounds(5001) \div 2)
    /\ C17_TaxAt(Pounds(105003)) = tax + C17_Step

=============================================================================
